---- MODULE Spec2Model ----
(***************************************************************************)
(* MemoryReportingStore (src/MemoryReportingStore.js): an in-memory keyed  *)
(* record store.  The records live in a plain JavaScript object literal,   *)
(* this._storeContents = {}, so the model carries the semantics of such an *)
(* object: its own properties in creation order, its [[Prototype]], the    *)
(* property lookup through the prototype chain, the __proto__ accessor of  *)
(* Object.prototype, Object.keys and Array.prototype.sort.                 *)
(***************************************************************************)
EXTENDS Integers, Sequences, FiniteSets, TLC

VARIABLES
    storeContents,  \* own properties of this._storeContents, in creation order
    storeProto,     \* the [[Prototype]] of this._storeContents
    call,           \* what the last call of the API did and returned
    before,         \* the store as it was when the last call started
    prior,          \* the call made before the last one (transformRecord chains)
    transformed,    \* identifiers passed to transformRecord so far
    ncalls,         \* number of API calls made so far
    watched,        \* one identifier, fixed at the start
    twin,           \* a second store, given every call except those on watched
    erased,         \* the last transformation of watched yielded undefined
    heap,           \* the arrays made by findRecords, by reference
    returns         \* what findRecords returned so far: reference and elements

vars ==
    <<storeContents, storeProto, call, before, prior, transformed, ncalls,
      watched, twin, erased, heap, returns>>

-----------------------------------------------------------------------------
(* Bounds of the model. *)

MaxCalls == 3
MaxNum == 2

-----------------------------------------------------------------------------
(* JavaScript values.  Every value is a record [type, v]; v is a number    *)
(* that tells the values of one type apart.                                *)

Undefined == [type |-> "undefined", v |-> 0]
Null == [type |-> "null", v |-> 0]
True == [type |-> "boolean", v |-> 1]
False == [type |-> "boolean", v |-> 0]
Num(n) == [type |-> "number", v |-> n]
\* the empty string ''
EmptyString == [type |-> "string", v |-> 0]
\* Object.prototype itself, as a value (what obj.__proto__ reads on a plain object)
ObjectPrototype == [type |-> "object", v |-> 0]
\* an object literal {a: 1}, a structured record value such as the tests store
Item == [type |-> "object", v |-> 1]
\* Object.prototype.toString, the function every plain object inherits
BuiltinFn == [type |-> "function", v |-> 0]
\* not a value: the outcome of a callback that throws
Thrown == [type |-> "throw", v |-> 0]

\* typeof x
TypeOf(x) == IF x.type = "null" THEN "object" ELSE x.type

\* the own properties of the object values of the model
Props(o) == IF o = Item THEN [k \in {"a"} |-> Num(1)] ELSE [k \in {} |-> Undefined]

-----------------------------------------------------------------------------
(* Identifiers.  "2" is an array index (Object.keys lists those first),    *)
(* "toString" is a data property of Object.prototype and "__proto__" is    *)
(* its accessor property.                                                  *)

Keys == {"a", "2", "toString", "__proto__"}
IndexKeys == {"2"}
BuiltinNames == {"toString"}

-----------------------------------------------------------------------------
(* The object this._storeContents: S = [contents, proto].                  *)

Store(c, p) == [contents |-> c, proto |-> p]

\* new MemoryReportingStore(): this._storeContents = {}
EmptyStore == Store(<<>>, ObjectPrototype)

OwnKeys(S) == {S.contents[i].key : i \in 1..Len(S.contents)}
HasOwn(S, k) == k \in OwnKeys(S)
OwnValue(S, k) ==
    IF HasOwn(S, k)
    THEN (CHOOSE e \in {S.contents[i] : i \in 1..Len(S.contents)} : e.key = k).value
    ELSE Undefined

\* obj[k]: the own property, else the prototype chain.  The chain of a
\* store is its [[Prototype]] (null, Object.prototype, or an object literal
\* whose own [[Prototype]] is Object.prototype).
Get(S, k) ==
    IF HasOwn(S, k) THEN OwnValue(S, k)
    ELSE IF S.proto = Null THEN Undefined
    ELSE IF k \in DOMAIN Props(S.proto) THEN Props(S.proto)[k]
    ELSE IF k = "__proto__" THEN S.proto
    ELSE IF k \in BuiltinNames THEN BuiltinFn
    ELSE Undefined

\* obj[k] = v.  An own property is overwritten in place.  Otherwise
\* "__proto__" reaches the setter of Object.prototype (unless the chain was
\* cut by a null prototype), which replaces the [[Prototype]] when v is an
\* object or null and does nothing for a primitive v; every other name
\* becomes a new own property, created last.  (No transformation function
\* of the model yields a function for "__proto__".)
Set(S, k, v) ==
    IF HasOwn(S, k)
    THEN Store([i \in 1..Len(S.contents) |->
                   IF S.contents[i].key = k
                   THEN [key |-> k, value |-> v]
                   ELSE S.contents[i]],
               S.proto)
    ELSE IF k = "__proto__" /\ S.proto # Null
    THEN IF TypeOf(v) = "object" THEN Store(S.contents, v) ELSE S
    ELSE Store(Append(S.contents, [key |-> k, value |-> v]), S.proto)

\* delete obj[k]: removes an own property, never an inherited one
Delete(S, k) ==
    Store(SelectSeq(S.contents, LAMBDA e : e.key # k), S.proto)

\* Object.keys(obj): the own keys, array indices first, then the other
\* names in creation order
ObjectKeys(S) ==
    LET ks == [i \in 1..Len(S.contents) |-> S.contents[i].key]
    IN SelectSeq(ks, LAMBDA k : k \in IndexKeys) \o
       SelectSeq(ks, LAMBDA k : k \notin IndexKeys)

-----------------------------------------------------------------------------
(* Transformation functions handed to transformRecord.  A function is      *)
(* [kind, value]:                                                          *)
(*   const     function(){ return value; }    (getPiApproximation,         *)
(*             bookGenerator; value undefined is the erasing function)     *)
(*   identity  function(x){ return x; }                                    *)
(*   skew      function(x){ return x + 1; }   (applied to numbers only)    *)
(*   throws    function(){ throw new Error(); }                            *)
(*   reenter   function(x){ store.transformRecord(recordID,                *)
(*                 function(){ return value; }); return x; }               *)
(*   reenterNumber                                                         *)
(*             function(x){ store.transformRecord(recordID,                *)
(*                 function(){ return value; });                           *)
(*                 return typeof x === 'number' ? x : 0; }                 *)

ConstValues == {Undefined, Num(0), Num(1), Null, False, EmptyString, Item}

Fn(kind, value) == [kind |-> kind, value |-> value]
NoFn == Fn("none", Undefined)
Identity == Fn("identity", Undefined)
Skew == Fn("skew", Undefined)
Throws == Fn("throws", Undefined)
Erase == Fn("const", Undefined)

TransformFns ==
    {Fn("const", c) : c \in ConstValues} \cup {Identity, Skew, Throws}

\* functions that call store.transformRecord on their own identifier
ReentrantKinds == {"reenter", "reenterNumber"}
InnerValues == {Undefined, Num(1), Null}
ReentrantFns == {Fn(kind, c) : kind \in ReentrantKinds, c \in InnerValues}

\* transformationFunction(x)
Apply(fn, x) ==
    CASE fn.kind = "const" -> fn.value
      [] fn.kind = "identity" -> x
      [] fn.kind = "skew" -> Num(x.v + 1)
      [] fn.kind = "reenter" -> x
      [] fn.kind = "reenterNumber" -> IF TypeOf(x) = "number" THEN x ELSE Num(0)
      [] OTHER -> Thrown

\* skew is only handed a number it can increase within the bound
Applicable(fn, x) == fn.kind = "skew" => (x.type = "number" /\ x.v < MaxNum)

-----------------------------------------------------------------------------
(* transformRecord(recordID, transformationFunction)                       *)

\* line 38: this._storeContents[recordID] = <the function's result>
Assign(S, recordID, r) == Set(S, recordID, r)

\* (mutation of CleanUp: the undefined slot is left in place)
CleanUpSkipped(S, recordID) == S

\* lines 40-42: if the slot now reads undefined, delete it
CleanUp(S, recordID) ==
    IF TypeOf(Get(S, recordID)) = "undefined" THEN Delete(S, recordID) ELSE S

\* what the function does to the store while it runs: a re-entrant one
\* makes a whole transformRecord call (lines 35-42) with a constant function
FunctionEffect(fn, S, recordID) ==
    IF fn.kind \in ReentrantKinds
    THEN CleanUp(Assign(S, recordID, fn.value), recordID)
    ELSE S

\* (mutation of TransformRun: the slot is cleared before the function runs)
TransformRunClearsFirst(S, recordID, fn) ==
    LET currentRecordValue == Get(S, recordID)
        r == Apply(fn, currentRecordValue)
        S1 == FunctionEffect(fn, S, recordID)
    IN [arg |-> currentRecordValue,
        invocations |-> 1,
        produced |-> r,
        threw |-> (r = Thrown),
        store |-> IF r = Thrown THEN Delete(S1, recordID)
                  ELSE CleanUp(Assign(S1, recordID, r), recordID)]

\* one call: the function is invoked once, with the current value read at
\* line 35, before anything is written; when it throws, the assignment of
\* line 38 never happens and the exception leaves transformRecord.  The
\* assignment lands on the store as the function left it.
TransformRun(S, recordID, fn) ==
    LET currentRecordValue == Get(S, recordID)
        r == Apply(fn, currentRecordValue)
        S1 == FunctionEffect(fn, S, recordID)
    IN [arg |-> currentRecordValue,
        invocations |-> 1,
        produced |-> r,
        threw |-> (r = Thrown),
        store |-> IF r = Thrown THEN S1
                  ELSE CleanUp(Assign(S1, recordID, r), recordID)]

\* the store a call leaves behind
TransformedStore(S, recordID, fn) == TransformRun(S, recordID, fn).store

-----------------------------------------------------------------------------
(* getRecord(recordID)                                                     *)

\* (mutation of GetRecord: a missing key is an error)
GetRecordStrict(S, recordID) ==
    IF HasOwn(S, recordID) THEN Get(S, recordID) ELSE Thrown

\* line 48: return this._storeContents[recordID]
GetRecord(S, recordID) == Get(S, recordID)

-----------------------------------------------------------------------------
(* findRecords(searchPredicate, projectionFunction, sortingFunction)       *)
(* Callbacks are named; "absent" is an argument that is not a function.    *)

\* a value that an if() would take for true
Truthy(x) == x \notin {Undefined, Null, False, Num(0), EmptyString}

SearchPredicates == {"absent", "self", "numberElseOne", "idIsA"}
ProjectionFunctions == {"absent", "complement", "hideObjects"}
\* callbacks that call store.transformRecord before they return
ReentrantPredicates == {"insertA", "eraseA", "eraseToString"}
ReentrantProjections == {"eraseAKeep"}
SortingFunctions == {"absent", "ascending", "descending"}

\* searchPredicate(value, key):
\*   self      function(v){ return v; }          truthy for most values
\*   numberElseOne
\*             function(v){ return typeof v === 'number' ? true : 1; }
\*   idIsA     function(v, id){ return id === 'a'; }
\*   insertA   function(v){ store.transformRecord('a', function(){ return 1; });
\*                          return true; }
\*   eraseA    function(v){ store.transformRecord('a', function(){});
\*                          return true; }
\*   eraseToString
\*             function(v){ store.transformRecord('toString', function(){});
\*                          return true; }
ApplyPredicate(p, value, key) ==
    CASE p = "self" -> value
      [] p = "numberElseOne" -> IF TypeOf(value) = "number" THEN True ELSE Num(1)
      [] p = "idIsA" -> IF key = "a" THEN True ELSE False
      [] OTHER -> True

\* what a call of the predicate does to the store
PredicateEffect(p, S) ==
    CASE p = "insertA" -> TransformedStore(S, "a", Fn("const", Num(1)))
      [] p = "eraseA" -> TransformedStore(S, "a", Erase)
      [] p = "eraseToString" -> TransformedStore(S, "toString", Erase)
      [] OTHER -> S

\* projectionFunction(value, key):
\*   complement   function(v){ return typeof v === 'number' ? MaxNum - v : v; }
\*   hideObjects  function(v){ return typeof v === 'object' ? undefined : v; }
\*   eraseAKeep   function(v){ store.transformRecord('a', function(){});
\*                             return v; }
ApplyProjection(q, value, key) ==
    CASE q = "complement" ->
            IF TypeOf(value) = "number" THEN Num(MaxNum - value.v) ELSE value
      [] q = "hideObjects" -> IF TypeOf(value) = "object" THEN Undefined ELSE value
      [] OTHER -> value

\* what a call of the projection does to the store
ProjectionEffect(q, S) ==
    IF q = "eraseAKeep" THEN TransformedStore(S, "a", Erase) ELSE S

\* the position of a value in the total order the comparators sort by
Rank(x) ==
    CASE x.type = "undefined" -> 0
      [] x.type = "boolean" -> 1 + x.v
      [] x.type = "number" -> 3 + x.v
      [] x.type = "null" -> 3 + MaxNum + 1
      [] x.type = "object" -> 3 + MaxNum + 2 + x.v
      [] x.type = "function" -> 3 + MaxNum + 4
      [] OTHER -> 3 + MaxNum + 5

\* sortingFunction(a, b):
\*   ascending   function(a, b){ return rank(a) - rank(b); }
\*   descending  function(a, b){ return rank(b) - rank(a); }
ApplyComparator(c, a, b) ==
    IF c = "ascending" THEN Rank(a) - Rank(b) ELSE Rank(b) - Rank(a)

\* lines 52-54: the predicate in use
MatchesConditions(p, value, key) ==
    IF p = "absent" THEN True ELSE ApplyPredicate(p, value, key)

\* lines 56-58: the projection in use
Projector(q, value, key) ==
    IF q = "absent" THEN value ELSE ApplyProjection(q, value, key)

\* (mutation of Included: any truthy verdict is accepted)
IncludedIfTruthy(verdict) == Truthy(verdict)

\* line 64: ... === true
Included(verdict) == verdict = True

\* (mutation of Visit: a rejected record is dropped from the store)
VisitPruning(S, key, p, q) ==
    LET value == Get(S, key)
        verdict == MatchesConditions(p, value, key)
        S1 == PredicateEffect(p, S)
        shown == Get(S1, key)
    IN [store |-> IF Included(verdict) THEN ProjectionEffect(q, S1)
                  ELSE Delete(S1, key),
        hit |-> Included(verdict),
        predicate |-> [key |-> key, value |-> value, verdict |-> verdict],
        projection |-> [key |-> key, value |-> shown,
                        out |-> Projector(q, shown, key)]]

\* lines 63-67, one turn of the forEach for storeKey = key: the predicate
\* gets the value read at line 64; if its verdict is accepted the
\* projection gets the value read again at line 66
Visit(S, key, p, q) ==
    LET value == Get(S, key)
        verdict == MatchesConditions(p, value, key)
        S1 == PredicateEffect(p, S)
        shown == Get(S1, key)
    IN [store |-> IF Included(verdict) THEN ProjectionEffect(q, S1) ELSE S1,
        hit |-> Included(verdict),
        predicate |-> [key |-> key, value |-> value, verdict |-> verdict],
        projection |-> [key |-> key, value |-> shown,
                        out |-> Projector(q, shown, key)]]

\* line 66, results.push(...), after one turn v of the forEach
Pushed(acc, v) ==
    [store |-> v.store,
     results |-> IF v.hit THEN Append(acc.results, v.projection.out)
                 ELSE acc.results,
     predicateCalls |-> Append(acc.predicateCalls, v.predicate),
     projectionCalls |-> IF v.hit THEN Append(acc.projectionCalls, v.projection)
                         ELSE acc.projectionCalls]

\* the forEach over the remaining keys ks; each turn's outcome is bound
\* once, as the element of a singleton set
RECURSIVE ScanFrom(_, _, _, _)
ScanFrom(ks, p, q, acc) ==
    IF ks = <<>> THEN acc
    ELSE CHOOSE out \in
            {ScanFrom(Tail(ks), p, q, next) :
                next \in {Pushed(acc, v) : v \in {Visit(acc.store, Head(ks), p, q)}}} :
            TRUE

\* lines 60-68: Object.keys is taken once, when the scan starts
ScanRun(S, p, q) ==
    ScanFrom(ObjectKeys(S), p, q,
        [store |-> S, results |-> <<>>, predicateCalls |-> <<>>,
         projectionCalls |-> <<>>])

\* lines 62-64, the predicate's side: its calls, in order
PredicateCalls(S, p) == ScanRun(S, p, "absent").predicateCalls

\* lines 64-66, the projection's side: its calls, in order
ProjectionCalls(S, p, q) == ScanRun(S, p, q).projectionCalls

\* lines 60-68: results after the scan
Scan(S, p, q) == ScanRun(S, p, q).results

\* the store a findRecords call leaves behind
FoundStore(S, p, q) == ScanRun(S, p, q).store

\* the identifiers the callbacks passed to transformRecord during the scan
Touched(S, p, q) ==
    (IF p \in {"insertA", "eraseA"} /\ ScanRun(S, p, q).predicateCalls # <<>>
     THEN {"a"} ELSE {})
    \cup (IF p = "eraseToString" /\ ScanRun(S, p, q).predicateCalls # <<>>
         THEN {"toString"} ELSE {})
    \cup (IF q = "eraseAKeep" /\ ScanRun(S, p, q).projectionCalls # <<>>
         THEN {"a"} ELSE {})

\* Array.prototype.sort compares through SortCompare: undefined elements
\* go last without the comparator being asked, the rest are compared by it
SortCompare(c, x, y) ==
    IF x = Undefined /\ y = Undefined THEN 0
    ELSE IF x = Undefined THEN 1
    ELSE IF y = Undefined THEN 0 - 1
    ELSE ApplyComparator(c, x, y)

Arrangements(n) ==
    {f \in [1..n -> 1..n] : \A i, j \in 1..n : f[i] = f[j] => i = j}

\* line 71: results.sort(sortingFunction).  Every arrangement of the
\* elements that SortCompare accepts is a possible outcome (the order of
\* ties is up to the engine).
Sorted(rs, c) ==
    {s \in {[i \in 1..Len(rs) |-> rs[f[i]]] : f \in Arrangements(Len(rs))} :
        \A i \in 1..(Len(rs) - 1) : SortCompare(c, s[i], s[i + 1]) <= 0}

\* lines 69-73: the sequences findRecords may return
FindRecords(S, p, q, c) ==
    IF c = "absent" THEN {Scan(S, p, q)} ELSE Sorted(Scan(S, p, q), c)

-----------------------------------------------------------------------------
(* The state machine: one store, called through its three methods.         *)

CurrentStore == Store(storeContents, storeProto)

\* the record of a call
Call(op, recordID, fn, fresh, run, returned, finding) ==
    [op |-> op, recordID |-> recordID, fn |-> fn, fresh |-> fresh,
     arg |-> run.arg, invocations |-> run.invocations,
     produced |-> run.produced, threw |-> run.threw,
     returned |-> returned,
     predicate |-> finding.predicate, projection |-> finding.projection,
     sorting |-> finding.sorting, results |-> finding.results,
     predicateCalls |-> finding.predicateCalls,
     projectionCalls |-> finding.projectionCalls]

NoRun ==
    [arg |-> Undefined, invocations |-> 0, produced |-> Undefined, threw |-> FALSE]
NoFinding ==
    [predicate |-> "absent", projection |-> "absent", sorting |-> "absent",
     results |-> <<>>, predicateCalls |-> <<>>, projectionCalls |-> <<>>]
NoCall == Call("none", "", NoFn, FALSE, NoRun, Undefined, NoFinding)

\* var store = new MemoryReportingStore(); no call made yet
Constructed ==
    /\ storeContents = EmptyStore.contents
    /\ storeProto = EmptyStore.proto
    /\ call = NoCall
    /\ before = EmptyStore
    /\ prior = NoCall
    /\ transformed = {}
    /\ ncalls = 0
    /\ twin = EmptyStore
    /\ erased = FALSE
    /\ heap = <<>>
    /\ returns = <<>>

Init == Constructed /\ watched = "a"

\* two stores constructed, and any identifier watched
InitTwin == Constructed /\ watched \in Keys

\* store.transformRecord(recordID, fn)
TransformRecord(recordID, fn) ==
    LET run == TransformRun(CurrentStore, recordID, fn)
    IN /\ ncalls < MaxCalls
       /\ Applicable(fn, Get(CurrentStore, recordID))
       /\ storeContents' = run.store.contents
       /\ storeProto' = run.store.proto
       /\ call' = Call("transformRecord", recordID, fn, recordID \notin transformed,
                       run, Undefined, NoFinding)
       /\ before' = CurrentStore
       /\ transformed' = transformed \cup {recordID}
       /\ ncalls' = ncalls + 1

\* store.getRecord(recordID)
GetRecordCall(recordID) ==
    /\ ncalls < MaxCalls
    /\ call' = Call("getRecord", recordID, NoFn, FALSE, NoRun,
                    GetRecord(CurrentStore, recordID), NoFinding)
    /\ before' = CurrentStore
    /\ ncalls' = ncalls + 1
    /\ UNCHANGED <<storeContents, storeProto, transformed>>

\* store.findRecords(p, q, c)
FindRecordsCall(p, q, c) ==
    /\ ncalls < MaxCalls
    /\ \E run \in {ScanRun(CurrentStore, p, q)} :
          /\ \E rs \in FindRecords(CurrentStore, p, q, c) :
                call' = Call("findRecords", "", NoFn, FALSE, NoRun, Undefined,
                             [predicate |-> p, projection |-> q, sorting |-> c,
                              results |-> rs,
                              predicateCalls |-> run.predicateCalls,
                              projectionCalls |-> run.projectionCalls])
          /\ storeContents' = run.store.contents
          /\ storeProto' = run.store.proto
    /\ before' = CurrentStore
    /\ ncalls' = ncalls + 1
    /\ transformed' = transformed \cup Touched(CurrentStore, p, q)

Transform == \E k \in Keys, fn \in TransformFns : TransformRecord(k, fn)
Read == \E k \in Keys : GetRecordCall(k)
Find ==
    \E p \in SearchPredicates, q \in ProjectionFunctions, c \in SortingFunctions :
        FindRecordsCall(p, q, c)

Untracked == UNCHANGED <<prior, watched, twin, erased, heap, returns>>

Next ==
    \/ Transform /\ Untracked
    \/ Read /\ Untracked
    \/ Find /\ Untracked

Spec == Init /\ [][Next]_vars

\* Chains of transformRecord calls, each remembered for one more call.
NextChain ==
    Transform /\ prior' = call /\ UNCHANGED <<watched, twin, erased, heap, returns>>

SpecChain == Init /\ [][NextChain]_vars

\* The store beside its twin: the twin is a store of its own that gets the
\* same transformRecord calls, except those on the watched identifier.
NextTwin ==
    \E k \in Keys, fn \in TransformFns :
        /\ TransformRecord(k, fn)
        /\ Applicable(fn, Get(twin, k))
        /\ twin' = IF k = watched THEN twin ELSE TransformedStore(twin, k, fn)
        /\ erased' = IF k = watched /\ ~call'.threw
                     THEN call'.produced = Undefined
                     ELSE erased
        /\ UNCHANGED <<prior, watched, heap, returns>>

SpecTwin == InitTwin /\ [][NextTwin]_vars

\* transformRecord calls, some with a function that calls transformRecord on
\* the same identifier while it runs.
TransformReentrant == \E k \in Keys, fn \in ReentrantFns : TransformRecord(k, fn)

NextReenter ==
    \/ Transform /\ Untracked
    \/ TransformReentrant /\ Untracked

SpecReenter == Init /\ [][NextReenter]_vars

\* findRecords calls whose predicate or projection calls transformRecord
\* during the scan, between transformRecord calls.
FindReentrant ==
    \/ \E p \in ReentrantPredicates, q \in {"absent", "complement"} :
          FindRecordsCall(p, q, "absent")
    \/ \E p \in SearchPredicates, q \in ReentrantProjections :
          FindRecordsCall(p, q, "absent")

NextScan ==
    \/ Transform /\ Untracked
    \/ FindReentrant /\ Untracked

SpecScan == Init /\ [][NextScan]_vars

\* The arrays findRecords hands out, kept by the caller while the store is
\* transformed further.

\* (mutation of Allocate: one array is reused by every call)
AllocateShared(h) == 1

\* line 60, var results = []: a new array, none of those made before
Allocate(h) == Len(h) + 1

\* lines 60-73: the array at reference ref holds rs when it is returned
Filled(h, ref, rs) ==
    IF ref > Len(h) THEN Append(h, rs) ELSE [h EXCEPT ![ref] = rs]

\* var r = store.findRecords(p, q, c), and r is kept
FindRecordsKept(p, q, c) ==
    /\ FindRecordsCall(p, q, c)
    /\ heap' = Filled(heap, Allocate(heap), call'.results)
    /\ returns' = Append(returns, [ref |-> Allocate(heap), results |-> call'.results])

NextHeap ==
    \/ Transform /\ UNCHANGED <<prior, watched, twin, erased, heap, returns>>
    \/ /\ \E p \in SearchPredicates, q \in ProjectionFunctions, c \in SortingFunctions :
             FindRecordsKept(p, q, c)
       /\ UNCHANGED <<prior, watched, twin, erased>>

SpecHeap == Init /\ [][NextHeap]_vars

-----------------------------------------------------------------------------
(* Properties.                                                             *)

Values ==
    {Undefined, Null, True, False, EmptyString, ObjectPrototype, Item, BuiltinFn}
        \cup {Num(n) : n \in 0..(MaxNum + 1)}

Count(seq, x) == Cardinality({i \in 1..Len(seq) : seq[i] = x})

Transformed == call.op = "transformRecord" /\ ~call.threw
Found == call.op = "findRecords"
FoundPlain ==
    /\ Found
    /\ call.predicate = "absent"
    /\ call.projection = "absent"
    /\ call.sorting = "absent"

\* C1: after transformRecord(k, fn) with fn returning a value v other than
\* undefined, getRecord(k) returns v.
C1_GetReturnsProduced ==
    (Transformed /\ call.produced # Undefined)
        => GetRecord(CurrentStore, call.recordID) = call.produced

\* C2: an identifier never passed to transformRecord reads as undefined.
C2_UntransformedIsAbsent ==
    \A k \in Keys \ transformed : GetRecord(CurrentStore, k) = Undefined

\* C3: after transformRecord(k, fn) with fn returning undefined,
\* getRecord(k) returns undefined and findRecords() has no entry for k, its
\* length being the number of the other records.
C3_ErasedIsGone ==
    (Transformed /\ call.produced = Undefined)
        => /\ GetRecord(CurrentStore, call.recordID) = Undefined
           /\ \A i \in 1..Len(PredicateCalls(CurrentStore, "absent")) :
                 PredicateCalls(CurrentStore, "absent")[i].key # call.recordID
           /\ \A rs \in FindRecords(CurrentStore, "absent", "absent", "absent") :
                 Len(rs) = Cardinality(OwnKeys(before) \ {call.recordID})

\* C4: a key is present in the mapping exactly when the mapping holds a
\* value other than undefined for it: no entry of the mapping is undefined
\* once a call has returned, and no key is entered twice.
C4_PresentIffDefined ==
    /\ \A k \in Keys :
          HasOwn(CurrentStore, k) <=> OwnValue(CurrentStore, k) # Undefined
    /\ \A i \in 1..Len(storeContents) : storeContents[i].value # Undefined
    /\ \A i, j \in 1..Len(storeContents) :
          storeContents[i].key = storeContents[j].key => i = j

\* a record was erased while another one stayed
C4_Witness ==
    /\ Transformed
    /\ call.produced = Undefined
    /\ HasOwn(before, call.recordID)
    /\ ~HasOwn(CurrentStore, call.recordID)
    /\ storeContents # <<>>

\* C5: when the transformation function throws, the exception leaves
\* transformRecord and the store is exactly as it was before the call.
C5_ThrowLeavesStore ==
    (call.op = "transformRecord" /\ call.threw)
        => /\ CurrentStore = before
           /\ call.produced = Thrown
           /\ \A k \in Keys :
                 GetRecord(CurrentStore, k) = GetRecord(before, k)

\* the function threw on a record that exists
C5_Witness ==
    /\ call.op = "transformRecord"
    /\ call.threw
    /\ HasOwn(before, call.recordID)

\* C6: findRecords(predicate) returns a record exactly when
\* predicate(value, id) is the boolean true; any other verdict, truthy or
\* not, leaves the record out.
C6_OnlyTrueIsIncluded ==
    (Found /\ call.predicate # "absent")
        => \A x \in Values :
              Count(call.results, x) =
                  Cardinality({k \in OwnKeys(before) :
                      /\ ApplyPredicate(call.predicate, OwnValue(before, k), k) = True
                      /\ Projector(call.projection, OwnValue(before, k), k) = x})

\* of two records, one was accepted with true and one rejected with 1
C6_Witness ==
    /\ Found
    /\ call.predicate = "numberElseOne"
    /\ Len(before.contents) = 2
    /\ Len(call.results) = 1

\* the identifiers that were transformed and do not read as undefined
Live(S) == {k \in transformed : GetRecord(S, k) # Undefined}

\* C7: findRecords() returns the values of all live records, each once,
\* and as many of them as there are identifiers whose value is not
\* undefined.
C7_FindAllListsLive ==
    FoundPlain
        => /\ Len(call.results) = Cardinality(Live(before))
           /\ \A x \in Values :
                 Count(call.results, x) =
                     Cardinality({k \in Live(before) : GetRecord(before, k) = x})

\* C8: with a comparator, findRecords returns the projected values of the
\* matching records arranged so that comparator(a, b) <= 0 for every
\* adjacent pair (a, b).
C8_SortedByComparator ==
    (Found /\ call.sorting # "absent")
        => /\ \A i \in 1..(Len(call.results) - 1) :
                 ApplyComparator(call.sorting, call.results[i], call.results[i + 1]) <= 0
           /\ \A x \in Values :
                 Count(call.results, x) =
                     Count(Scan(before, call.predicate, call.projection), x)

\* C9: transformRecord(k, fn) calls fn once, with what getRecord(k) would
\* have returned, which is undefined when k has no record; and after
\* transformRecord(k, f) then transformRecord(k, g) on a store without k,
\* getRecord(k) is g(f(undefined)).
C9_CalledOnceWithCurrent ==
    Transformed
        => /\ call.invocations = 1
           /\ call.arg = GetRecord(before, call.recordID)
           /\ call.fresh => call.arg = Undefined
           /\ (/\ prior.op = "transformRecord"
               /\ ~prior.threw
               /\ prior.fresh
               /\ prior.recordID = call.recordID)
                  => GetRecord(CurrentStore, call.recordID) =
                         Apply(call.fn, Apply(prior.fn, Undefined))

\* C10: once a transformation of k has yielded undefined, the store and a
\* store that never saw k answer alike: getRecord for every identifier,
\* findRecords for every choice of callbacks (order included), and the
\* argument the next transformation of k receives.
C10_ErasedLikeNeverCreated ==
    erased
        => /\ \A k \in Keys : GetRecord(CurrentStore, k) = GetRecord(twin, k)
           /\ \A p \in SearchPredicates, q \in ProjectionFunctions,
                 c \in SortingFunctions :
                 FindRecords(CurrentStore, p, q, c) = FindRecords(twin, p, q, c)
           /\ Get(CurrentStore, watched) = Get(twin, watched)


\* C11: transformRecord(k, function(x){ return x; }) leaves getRecord(k),
\* the set of live records and the result of findRecords() as they were,
\* whether k had a record or not.
C11_NoOpTransformChangesNothing ==
    (Transformed /\ call.fn = Identity)
        => /\ GetRecord(CurrentStore, call.recordID) = GetRecord(before, call.recordID)
           /\ OwnKeys(CurrentStore) = OwnKeys(before)
           /\ {k \in Keys : GetRecord(CurrentStore, k) # Undefined} =
                  {k \in Keys : GetRecord(before, k) # Undefined}
           /\ FindRecords(CurrentStore, "absent", "absent", "absent") =
                  FindRecords(before, "absent", "absent", "absent")

C16_OthersUntouched ==
    call.op = "transformRecord"
        => \A j \in Keys \ {call.recordID} :
              /\ GetRecord(CurrentStore, j) = GetRecord(before, j)
              /\ HasOwn(CurrentStore, j) <=> HasOwn(before, j)

\* the falsy values other than undefined
Falsy == {Null, False, Num(0), EmptyString}

\* C17: a transformation that returns null, false, 0 or '' leaves a live
\* record: getRecord returns that value, findRecords scans the record and
\* findRecords() counts it.
C17_OnlyUndefinedErases ==
    (Transformed /\ call.produced \in Falsy)
        => /\ GetRecord(CurrentStore, call.recordID) = call.produced
           /\ \E i \in 1..Len(PredicateCalls(CurrentStore, "absent")) :
                 /\ PredicateCalls(CurrentStore, "absent")[i].key = call.recordID
                 /\ PredicateCalls(CurrentStore, "absent")[i].value = call.produced
           /\ \A rs \in FindRecords(CurrentStore, "absent", "absent", "absent") :
                 Len(rs) = Cardinality(OwnKeys(before) \cup {call.recordID})

\* C12: only transformRecord mutates the store: a getRecord call, and a
\* findRecords call whose callbacks do not call the store, leaves the whole
\* mapping (own entries, their order, the prototype link) as it was.
C12_ReadsLeaveStore ==
    call.op \in {"getRecord", "findRecords"}
        => /\ CurrentStore = before
           /\ \A k \in Keys : GetRecord(CurrentStore, k) = GetRecord(before, k)

\* a findRecords call on a store with entries, one of them rejected
C12_Witness ==
    /\ call.op = "findRecords"
    /\ CurrentStore = before
    /\ \E i \in 1..Len(call.predicateCalls) :
          ~Included(call.predicateCalls[i].verdict)
    /\ Len(call.results) > 0

\* the calls of the predicate that it accepted
Accepted(calls) == SelectSeq(calls, LAMBDA c : Included(c.verdict))

\* C14: findRecords(predicate, projection) without a comparator returns,
\* in scan order, one projected value per matching record: the predicate
\* is called exactly once per live record, with its value and identifier;
\* the projection is called exactly once per accepted record, in the same
\* order, and for no rejected one; the result holds the projections'
\* outputs and is as long as there are accepted records.
C14_OnePerMatchingRecord ==
    (Found /\ call.sorting = "absent")
        => /\ \A k \in Live(before) :
                 \E i \in 1..Len(call.predicateCalls) :
                    /\ call.predicateCalls[i].key = k
                    /\ call.predicateCalls[i].value = GetRecord(before, k)
                    /\ \A j \in 1..Len(call.predicateCalls) :
                          call.predicateCalls[j].key = k => j = i
           /\ \A i \in 1..Len(call.predicateCalls) :
                 call.predicateCalls[i].key \in Live(before)
           /\ Len(call.projectionCalls) = Len(Accepted(call.predicateCalls))
           /\ \A i \in 1..Len(call.projectionCalls) :
                 /\ call.projectionCalls[i].key = Accepted(call.predicateCalls)[i].key
                 /\ call.projectionCalls[i].value = Accepted(call.predicateCalls)[i].value
           /\ Len(call.results) = Len(Accepted(call.predicateCalls))
           /\ \A i \in 1..Len(call.results) :
                 call.results[i] = call.projectionCalls[i].out

\* C15: the sequence findRecords returned is materialized: whatever
\* transformRecord calls follow, every sequence returned so far still has
\* the length, order and elements it was returned with; and every call
\* returned a sequence of its own.
C15_ReturnedIsMaterialized ==
    /\ \A i \in 1..Len(returns) : heap[returns[i].ref] = returns[i].results
    /\ \A i, j \in 1..Len(returns) : returns[i].ref = returns[j].ref => i = j

\* a sequence was returned, and the records were erased afterwards
C15_Witness ==
    /\ Len(returns) > 0
    /\ returns[1].results # <<>>
    /\ Transformed
    /\ call.produced = Undefined
    /\ storeContents = <<>>
    /\ before.contents # <<>>

\* C18: when the transformation function calls transformRecord on the same
\* identifier while it runs, the outer call still works on the value read
\* before the inner call, and its write comes last: getRecord(k) returns
\* what the outer function returned, and k is absent if that is undefined.
C18_OuterWriteWins ==
    (Transformed /\ call.fn.kind \in ReentrantKinds)
        => /\ call.arg = GetRecord(before, call.recordID)
           /\ call.produced = Apply(call.fn, GetRecord(before, call.recordID))
           /\ GetRecord(CurrentStore, call.recordID) = call.produced
           /\ call.produced = Undefined => ~HasOwn(CurrentStore, call.recordID)

\* the identifier a predicate erases when it is called
ErasedBy(p) ==
    CASE p = "eraseA" -> {"a"}
      [] p = "eraseToString" -> {"toString"}
      [] OTHER -> {}

\* C19: findRecords scans the keys it captured when the scan started and
\* reads the values live.  When a callback calls transformRecord during
\* the scan: the predicate is presented exactly the keys the store had at
\* the start (a record inserted mid-scan is not visited), a record erased
\* by an earlier callback is still presented, with undefined as its value,
\* and a record rewritten by an earlier callback is presented with its new
\* value.
C19_KeysCapturedValuesLive ==
    Found
        => /\ [i \in 1..Len(call.predicateCalls) |-> call.predicateCalls[i].key]
                 = ObjectKeys(before)
           /\ \A i \in 2..Len(call.predicateCalls) :
                 /\ call.predicateCalls[i].key \in ErasedBy(call.predicate)
                       => call.predicateCalls[i].value = Undefined
                 /\ (call.predicate = "insertA" /\ call.predicateCalls[i].key = "a")
                       => call.predicateCalls[i].value = Num(1)
                 /\ ( /\ call.projection = "eraseAKeep"
                      /\ call.predicateCalls[i].key = "a"
                      /\ \E j \in 1..(i - 1) : Included(call.predicateCalls[j].verdict) )
                       => call.predicateCalls[i].value = Undefined

====
